---------------------------- MODULE Spec2Model ----------------------------
(***************************************************************************)
(* Project Alpha credit-risk engine: the transform chain of                *)
(* src/project_alpha/cleaning.py and features.py (RegexCleaner,            *)
(* OutlierCapper, MissingValueImputer, FeatureEngineer), the chain built   *)
(* by train.py and the prediction service of app.py.                       *)
(*                                                                         *)
(* Numbers.  A float64 cell is modelled in fixed point: the integer v      *)
(* stands for the number v / Scale, so 18 is 18 * Scale and the smallest   *)
(* positive number is 0.00001.  NaN is a cell of its own kind.  A batch    *)
(* (a DataFrame) is a record of its column names and its rows; a row is a  *)
(* function from the column names to cells.                                *)
(***************************************************************************)
EXTENDS Integers, Sequences, FiniteSets, TLC

VARIABLES
    capper,     \* the OutlierCapper instance: [median_age]
    imputer,    \* the MissingValueImputer instance: [group_medians, global_median]
    X,          \* the batch handed to the last fit / transform call
    Xfit,       \* the batch handed to the last fit call
    Y,          \* the batch returned by the last transform call
    op,         \* the last call made on the transformers
    pipeline,   \* app.py's module global `pipeline`
    phase,      \* lifespan position of the service: "created", "serving", "stopped"
    response,   \* what the last request handler returned or raised
    loaded      \* the chain joblib.load returned at startup; None while none is loaded

vars == <<capper, imputer, X, Xfit, Y, op, pipeline, phase, response, loaded>>

-----------------------------------------------------------------------------
(* Cells *)

\* units per 1.0 of the fixed-point numbers (five decimal places)
Scale == 10 ^ 5

NaN == [k |-> "nan", v |-> 0, d |-> 1, s |-> <<>>]
\* a float64 number v / Scale
Num(v) == [k |-> "num", v |-> v, d |-> 1, s |-> <<>>]
\* an int64 number v / Scale (v a multiple of Scale)
Int64(v) == [k |-> "int", v |-> v, d |-> 1, s |-> <<>>]
\* a str object holding the characters s
Str(s) == [k |-> "str", v |-> 0, d |-> 1, s |-> s]

IsNumber(c) == c.k \in {"num", "int"}
\* pd.isna / pd.notnull on a numeric cell
IsNa(c) == c.k = "nan"

\* comparisons of pandas: every comparison with NaN is False
Lt(c, n) == IsNumber(c) /\ c.v < n
Gt(c, n) == IsNumber(c) /\ c.v > n
Ge(c, n) == IsNumber(c) /\ c.v >= n
Le(c, n) == IsNumber(c) /\ c.v <= n

-----------------------------------------------------------------------------
(* Batches *)

Batch(cols, rows) == [columns |-> cols, rows |-> rows]
NRows(B) == Len(B.rows)
HasColumn(B, c) == c \in B.columns

\* every sequence over S of length at most n
RECURSIVE SeqsUpTo(_, _)
SeqsUpTo(S, n) ==
    IF n = 0 THEN {<<>>}
    ELSE LET shorter == SeqsUpTo(S, n - 1)
         IN  shorter \cup {Append(q, x) : q \in {t \in shorter : Len(t) = n - 1}, x \in S}

-----------------------------------------------------------------------------
(* str() of a cell, as Series.astype(str) applies it *)

DigitChars == <<"0", "1", "2", "3", "4", "5", "6", "7", "8", "9">>
Digits == {DigitChars[i] : i \in 1..10}
DigitValue(ch) == CHOOSE i \in 0..9 : DigitChars[i + 1] = ch

RECURSIVE NatStr(_)
NatStr(n) ==
    IF n < 10 THEN <<DigitChars[n + 1]>>
    ELSE NatStr(n \div 10) \o <<DigitChars[(n % 10) + 1]>>

RECURSIVE StripZeros(_)
StripZeros(s) ==
    IF Len(s) > 1 /\ s[Len(s)] = "0" THEN StripZeros(SubSeq(s, 1, Len(s) - 1))
    ELSE s

\* the fractional digits of f / Scale, trailing zeros dropped ("0" for none)
FracStr(f) ==
    StripZeros([i \in 1..5 |-> DigitChars[((f \div (10 ^ (5 - i))) % 10) + 1]])

Abs(n) == IF n < 0 THEN -n ELSE n
Sign(n) == IF n < 0 THEN <<"-">> ELSE <<>>

\* repr of a Python float: exponent notation below 0.0001 (and from 1e16 on,
\* which the fixed-point range does not reach), positional notation otherwise
FloatStr(v) ==
    IF v = 0 THEN <<"0", ".", "0">>
    ELSE IF Abs(v) < Scale \div 10000
         THEN Sign(v) \o NatStr(Abs(v)) \o <<"e", "-", "0", "5">>
         ELSE Sign(v) \o NatStr(Abs(v) \div Scale) \o <<".">> \o FracStr(Abs(v) % Scale)

\* str of an int64
IntStr(v) == Sign(v) \o NatStr(Abs(v) \div Scale)

\* X[col].astype(str), one cell
AsStr(c) ==
    CASE c.k = "str" -> c.s
      [] c.k = "nan" -> <<"n", "a", "n">>
      [] c.k = "int" -> IntStr(c.v)
      [] OTHER       -> FloatStr(c.v)

-----------------------------------------------------------------------------
(* RegexCleaner (cleaning.py) *)

\* the columns train.py configures the cleaner with
DIRTY_NUMERIC_COLS ==
    {"Age", "Annual_Income", "Num_of_Loan", "Num_Bank_Accounts",
     "Num_Credit_Card", "Interest_Rate", "Delay_from_due_date",
     "Num_of_Delayed_Payment", "Changed_Credit_Limit", "Num_Credit_Inquiries",
     "Outstanding_Debt", "Monthly_Inhand_Salary",
     "Total_EMI_per_month", "Amount_invested_monthly", "Monthly_Balance"}

\* a mutant of IsKept: the character class without the dot
IsKeptNoDot(ch) == ch \in Digits \cup {"-"}

\* the complement of the class [^\d.-]: what re.sub leaves in place
IsKept(ch) == ch \in Digits \cup {".", "-"}

\* re.sub(r'[^\d.-]', '', x)
ReSub(s) == SelectSeq(s, IsKept)

\* pd.to_numeric(..., errors='coerce') on one string of kept characters: an
\* optional sign, digits with at most one dot, at least one digit; the digits
\* are accumulated left to right and scaled by the count of decimals.
\* Anything else does not parse and is coerced to NaN.
RECURSIVE ParseFrom(_, _, _, _, _, _)
ParseFrom(s, i, number, ndec, dot, nd) ==
    IF i > Len(s)
    THEN IF nd = 0 THEN NaN
         ELSE IF ndec <= 5 THEN Num(number * (10 ^ (5 - ndec)))
         ELSE Num(number \div (10 ^ (ndec - 5)))
    ELSE IF s[i] \in Digits
         THEN ParseFrom(s, i + 1, number * 10 + DigitValue(s[i]),
                        IF dot THEN ndec + 1 ELSE ndec, dot, nd + 1)
    ELSE IF s[i] = "." /\ ~dot
         THEN ParseFrom(s, i + 1, number, ndec, TRUE, nd)
    ELSE NaN

Negate(c) == IF IsNa(c) THEN c ELSE Num(-c.v)

ToNumeric(s) ==
    IF s = <<>> THEN NaN
    ELSE IF s[1] = "-" THEN Negate(ParseFrom(Tail(s), 1, 0, 0, FALSE, 0))
    ELSE ParseFrom(s, 1, 0, 0, FALSE, 0)

\* lines 24-32 on one cell: astype(str), re.sub, replace('', nan), to_numeric
CleanCell(c) ==
    LET kept == ReSub(AsStr(c))
    IN  IF kept = <<>> THEN NaN ELSE ToNumeric(kept)

\* RegexCleaner.transform: every configured column the batch has is cleaned
\* cell by cell; the other columns and the row order are kept
RegexCleanerTransform(columns, B) ==
    Batch(B.columns,
          [i \in 1..NRows(B) |->
              [c \in B.columns |->
                  IF c \in columns THEN CleanCell(B.rows[i][c]) ELSE B.rows[i][c]]])

-----------------------------------------------------------------------------
(* Medians (Series.median: NaN skipped, NaN for no value at all) *)

RECURSIVE Insert(_, _)
Insert(x, sorted) ==
    IF sorted = <<>> THEN <<x>>
    ELSE IF x <= Head(sorted) THEN <<x>> \o sorted
    ELSE <<Head(sorted)>> \o Insert(x, Tail(sorted))

RECURSIVE Sort(_)
Sort(vs) == IF vs = <<>> THEN <<>> ELSE Insert(Head(vs), Sort(Tail(vs)))

\* the v of the number cells of a sequence of cells, in order
RECURSIVE Values(_)
Values(cells) ==
    IF cells = <<>> THEN <<>>
    ELSE IF IsNumber(Head(cells)) THEN <<Head(cells).v>> \o Values(Tail(cells))
    ELSE Values(Tail(cells))

\* the middle value, or the mean of the two middle values (exact on the
\* fixed-point grid when their sum is even, as it is for every input set below)
Median(cells) ==
    LET vs == Sort(Values(cells))
        n  == Len(vs)
    IN  IF n = 0 THEN NaN
        ELSE IF n % 2 = 1 THEN Num(vs[(n + 1) \div 2])
        ELSE Num((vs[n \div 2] + vs[(n \div 2) + 1]) \div 2)

\* column c of batch B as a sequence of cells
Column(B, c) == [i \in 1..NRows(B) |-> B.rows[i][c]]

-----------------------------------------------------------------------------
(* OutlierCapper (cleaning.py) *)

age_min == 18
age_max == 100
max_accounts == 20
default_median_age == 30

\* OutlierCapper.__init__
OutlierCapperInit == [median_age |-> Num(default_median_age * Scale)]

InAgeRange(c) == Ge(c, age_min * Scale) /\ Le(c, age_max * Scale)

\* OutlierCapper.fit: median_age is assigned only when the batch has an Age
\* column with at least one value in [age_min, age_max]
OutlierCapperFit(self, B) ==
    IF HasColumn(B, "Age")
    THEN LET valid_ages == SelectSeq(Column(B, "Age"), InAgeRange)
         IN  IF valid_ages # <<>>
             THEN [self EXCEPT !.median_age = Median(valid_ages)]
             ELSE self
    ELSE self

\* a mutant of CapAge: the upper test is >= instead of >
CapAgeInclusive(self, c) ==
    IF Lt(c, age_min * Scale) \/ Ge(c, age_max * Scale) THEN self.median_age ELSE c

\* lines 68-69 on one cell
CapAge(self, c) ==
    IF Lt(c, age_min * Scale) \/ Gt(c, age_max * Scale) THEN self.median_age ELSE c

\* a mutant of CapAccounts: the floor at 0 is missing
CapAccountsNoFloor(c) ==
    IF Gt(c, max_accounts * Scale) THEN [c EXCEPT !.v = max_accounts * Scale] ELSE c

\* lines 73-75 on one cell: the cap at max_accounts, then the floor at 0
CapAccounts(c) ==
    LET capped == IF Gt(c, max_accounts * Scale) THEN [c EXCEPT !.v = max_accounts * Scale] ELSE c
    IN  IF Lt(capped, 0) THEN [capped EXCEPT !.v = 0] ELSE capped

\* OutlierCapper.transform
OutlierCapperTransform(self, B) ==
    Batch(B.columns,
          [i \in 1..NRows(B) |->
              [c \in B.columns |->
                  CASE c = "Age"               -> CapAge(self, B.rows[i][c])
                    [] c = "Num_Bank_Accounts" -> CapAccounts(B.rows[i][c])
                    [] OTHER                   -> B.rows[i][c]]])

-----------------------------------------------------------------------------
(* MissingValueImputer (features.py) *)

\* MissingValueImputer.__init__: group_medians = {}, global_median = 0.0
MissingValueImputerInit ==
    [group_medians |-> [o \in {} |-> NaN], global_median |-> Num(0)]

\* the Monthly_Balance cells of the rows of B whose Occupation is o
GroupCells(B, o) ==
    LET InGroup(r) == r["Occupation"] = o
    IN  [i \in 1..Len(SelectSeq(B.rows, InGroup)) |->
            SelectSeq(B.rows, InGroup)[i]["Monthly_Balance"]]

\* MissingValueImputer.fit: both statistics are assigned only when the batch
\* has both columns; a group with no number has the median NaN, and so has
\* the whole column when it holds no number
MissingValueImputerFit(self, B) ==
    IF HasColumn(B, "Monthly_Balance") /\ HasColumn(B, "Occupation")
    THEN [global_median |-> Median(Column(B, "Monthly_Balance")),
          group_medians |->
              [o \in {B.rows[i]["Occupation"] : i \in 1..NRows(B)} |->
                  Median(GroupCells(B, o))]]
    ELSE self

\* a mutant of fill_balance: the looked-up group median is returned as it is
fill_balance_no_fallback(self, row) ==
    IF ~IsNa(row["Monthly_Balance"]) THEN row["Monthly_Balance"]
    ELSE IF row["Occupation"] \in DOMAIN self.group_medians
         THEN self.group_medians[row["Occupation"]]
         ELSE self.global_median

\* fill_balance (lines 32-42)
fill_balance(self, row) ==
    IF ~IsNa(row["Monthly_Balance"]) THEN row["Monthly_Balance"]
    ELSE LET group_val ==
                 IF row["Occupation"] \in DOMAIN self.group_medians
                 THEN self.group_medians[row["Occupation"]]
                 ELSE self.global_median
         IN  IF IsNa(group_val) THEN self.global_median ELSE group_val

\* MissingValueImputer.transform
MissingValueImputerTransform(self, B) ==
    IF HasColumn(B, "Monthly_Balance") /\ HasColumn(B, "Occupation")
    THEN Batch(B.columns,
               [i \in 1..NRows(B) |->
                   [c \in B.columns |->
                       IF c = "Monthly_Balance" THEN fill_balance(self, B.rows[i])
                       ELSE B.rows[i][c]]])
    ELSE B

-----------------------------------------------------------------------------
(* FeatureEngineer (features.py) *)

Inf == [k |-> "inf", v |-> 0, d |-> 1, s |-> <<>>]
\* the float a / b of two numbers a / Scale and b / Scale: numpy division,
\* which raises nothing: x / 0 is inf and 0 / 0 is NaN
Quot(a, b) ==
    IF b # 0 THEN [k |-> "quot", v |-> a, d |-> b, s |-> <<>>]
    ELSE IF a = 0 THEN NaN ELSE Inf

numeric_cols == {"Annual_Income", "Outstanding_Debt", "Num_Credit_Card", "Monthly_Inhand_Salary"}
proxy_limit_per_card == 5000

\* pd.to_numeric(X[col], errors='coerce').fillna(0) on one cell.  Of the texts
\* to_numeric reads, only plain decimals are modelled (no exponent, inf, sign +)
CoerceZero(c) ==
    LET n == IF c.k = "str" THEN ToNumeric(c.s) ELSE c
    IN  IF IsNa(n) THEN Num(0) ELSE n

\* a mutant of DTIRatio: the + 1.0 of the denominator is missing
DTIRatioNoGuard(debt, income) == Quot(debt, income)

\* line 68: Outstanding_Debt / (Annual_Income + 1.0)
DTIRatio(debt, income) == Quot(debt, income + Scale)

\* lines 74-75: Outstanding_Debt / (Num_Credit_Card * 5000 + 1.0)
UtilizationProxy(debt, cards) == Quot(debt, cards * proxy_limit_per_card + Scale)

\* lines 80-83: abs(Annual_Income - Monthly_Inhand_Salary * 12) / (Annual_Income + 1.0)
IncomeStability(income, salary) == Quot(Abs(income - salary * 12), income + Scale)

\* FeatureEngineer.transform: the four inputs the batch has are coerced, then
\* each ratio whose two inputs are present is added as a new column
FeatureEngineerTransform(B) ==
    LET coerced(r) == [c \in B.columns |-> IF c \in numeric_cols THEN CoerceZero(r[c]) ELSE r[c]]
        dti  == {"Outstanding_Debt", "Annual_Income"} \subseteq B.columns
        util == {"Outstanding_Debt", "Num_Credit_Card"} \subseteq B.columns
        stab == {"Annual_Income", "Monthly_Inhand_Salary"} \subseteq B.columns
        cols == B.columns \cup (IF dti THEN {"DTI_Ratio"} ELSE {})
                          \cup (IF util THEN {"Utilization_Proxy"} ELSE {})
                          \cup (IF stab THEN {"Income_Stability"} ELSE {})
        out(r) ==
            [c \in cols |->
                CASE c = "DTI_Ratio" /\ dti ->
                        DTIRatio(r["Outstanding_Debt"].v, r["Annual_Income"].v)
                  [] c = "Utilization_Proxy" /\ util ->
                        UtilizationProxy(r["Outstanding_Debt"].v, r["Num_Credit_Card"].v)
                  [] c = "Income_Stability" /\ stab ->
                        IncomeStability(r["Annual_Income"].v, r["Monthly_Inhand_Salary"].v)
                  [] OTHER -> r[c]]
    IN  Batch(cols, [i \in 1..NRows(B) |-> out(coerced(B.rows[i]))])

-----------------------------------------------------------------------------
(* The chain of train.py: regex, outliers, imputer, features *)

\* the four cleaning steps of model_pipeline, fitted: Pipeline.fit calls
\* fit_transform on each step in order, so each step is fitted on the output
\* of the steps before it
ChainFit(B) ==
    LET X1  == RegexCleanerTransform(DIRTY_NUMERIC_COLS, B)
        cap == OutlierCapperFit(OutlierCapperInit, X1)
        X2  == OutlierCapperTransform(cap, X1)
        imp == MissingValueImputerFit(MissingValueImputerInit, X2)
    IN  [capper |-> cap, imputer |-> imp]

\* the transform of the four fitted steps, in the order of the steps
ChainTransform(chain, B) ==
    FeatureEngineerTransform(
        MissingValueImputerTransform(chain.imputer,
            OutlierCapperTransform(chain.capper,
                RegexCleanerTransform(DIRTY_NUMERIC_COLS, B))))

-----------------------------------------------------------------------------
(* The prediction service (app.py) *)

None == [none |-> TRUE]

\* the steps of model_pipeline, in order (train.py)
PipelineSteps == <<"regex", "outliers", "imputer", "features", "preprocessor", "classifier">>

\* a fitted model_pipeline as joblib.dump writes it and joblib.load returns it:
\* the fitted cleaning steps and the fitted encoder and classifier
FittedPipeline(chain, classifier) ==
    [none |-> FALSE, steps |-> PipelineSteps,
     capper |-> chain.capper, imputer |-> chain.imputer, classifier |-> classifier]

\* bool(pipeline): None is false, a Pipeline is as true as it has steps (__len__)
Truthy(p) == p # None /\ Len(p.steps) > 0

\* The encoder and classifier are opaque: a fitted classifier is modelled as one
\* split on the cleaned Age (NaN goes below), each side either a class index or
\* an exception raised with a message.
Leaf(idx) == [raised |-> FALSE, idx |-> idx, message |-> ""]
Raises(message) == [raised |-> TRUE, idx |-> 0, message |-> message]
Stump(threshold, below, above) == [threshold |-> threshold, below |-> below, above |-> above]

Classify(classifier, row) ==
    IF Ge(row["Age"], classifier.threshold) THEN classifier.above ELSE classifier.below

\* a mutant of CapperAfterTransform: transform learns the median again
CapperAfterTransformRefit(self, B) == OutlierCapperFit(self, B)

\* the OutlierCapper after transform(B): transform assigns to X_copy only
CapperAfterTransform(self, B) == self

\* the MissingValueImputer after transform(B): likewise
ImputerAfterTransform(self, B) == self

\* pipeline.predict(df): the steps' transforms in order, then the classifier,
\* on the only row
PipelinePredict(p, df) == Classify(p.classifier, ChainTransform(p, df).rows[1])

\* the pipeline object after pipeline.predict(df) and pipeline.predict_proba(df)
PipelineAfterPredict(p, df) ==
    LET X1 == RegexCleanerTransform(DIRTY_NUMERIC_COLS, df)
        X2 == OutlierCapperTransform(p.capper, X1)
    IN  [p EXCEPT !.capper = CapperAfterTransform(p.capper, X1),
                  !.imputer = ImputerAfterTransform(p.imputer, X2)]

\* train.py: target_map
target_map == [label \in {"Good", "Standard", "Poor"} |->
                  CASE label = "Good" -> 0 [] label = "Standard" -> 1 [] OTHER -> 2]

\* a mutant of class_map: Standard and Poor change places
class_map_swapped(idx) == CASE idx = 0 -> "Good" [] idx = 1 -> "Poor" [] OTHER -> "Standard"

\* app.py: class_map = {0: 'Good', 1: 'Standard', 2: 'Poor'}
class_map(idx) == CASE idx = 0 -> "Good" [] idx = 1 -> "Standard" [] OTHER -> "Poor"

\* line 93
RiskLevel(result) ==
    IF result = "Poor" THEN "High" ELSE IF result = "Good" THEN "Low" ELSE "Medium"

\* What a handler returns or raises: status, detail and the body's fields.  The
\* last three fields are bookkeeping of the model: the request answered,
\* whether a chain was loaded when it was answered, and whether a prediction
\* had failed since the chain was loaded.
Response(kind, status, detail) ==
    [kind |-> kind, status |-> status, detail |-> detail, credit_score |-> "",
     risk_level |-> "", idx |-> -1, model_loaded |-> FALSE, request |-> <<>>,
     chain_loaded |-> FALSE, after_failure |-> FALSE]

NoResponse == Response("none", 0, "")

\* the try block of predict: the one-row frame of the request through the
\* pipeline; anything raised inside becomes HTTP 500 with str(e) as detail
PredictInTry(p, request) ==
    IF p = None
    THEN Response("predict", 500, "'NoneType' object has no attribute 'predict'")
    ELSE LET out == PipelinePredict(p, Batch(DOMAIN request, <<request>>))
         IN  IF out.raised THEN Response("predict", 500, out.message)
             ELSE IF out.idx \notin 0..2 THEN Response("predict", 500, "KeyError")
             ELSE [Response("predict", 200, "") EXCEPT
                      !.credit_score = class_map(out.idx),
                      !.risk_level = RiskLevel(class_map(out.idx)),
                      !.idx = out.idx]

\* a mutant of PredictHandler: the guard of lines 66-67 is missing
PredictHandlerNoGuard(p, request) == PredictInTry(p, request)

\* predict (lines 65-98), without the probabilities the opaque classifier gives
PredictHandler(p, request) ==
    IF ~Truthy(p) THEN Response("predict", 503, "Model not loaded")
    ELSE PredictInTry(p, request)

\* health_check
HealthHandler(p) == [Response("health", 200, "ok") EXCEPT !.model_loaded = (p # None)]

ServiceAbsent ==
    pipeline = None /\ phase = "none" /\ response = NoResponse /\ loaded = None

-----------------------------------------------------------------------------
(* Inputs of the transformer specifications *)

MaxRows == 2

Row2(a, b) == [c \in {"Age", "Num_Bank_Accounts"} |-> IF c = "Age" THEN a ELSE b]
Row1(name, a) == [c \in {name} |-> a]

\* Ages around both limits, one inside, one missing; account counts around
\* both limits.  The rows pair them so that every cell occurs and a row can be
\* out of range in both columns at once.
AgeCells == {NaN, Num(17 * Scale), Num(18 * Scale), Num(40 * Scale),
             Num(100 * Scale), Num(101 * Scale)}
BankCells == {Int64(-1 * Scale), Int64(0), Int64(20 * Scale), Int64(21 * Scale)}

CapperRows ==
    {Row2(NaN, Int64(0)), Row2(Num(17 * Scale), Int64(21 * Scale)),
     Row2(Num(18 * Scale), Int64(20 * Scale)), Row2(Num(40 * Scale), Int64(-1 * Scale)),
     Row2(Num(100 * Scale), Int64(0)), Row2(Num(101 * Scale), Int64(-1 * Scale)),
     Row2(Num(40 * Scale), Int64(21 * Scale)), Row2(Num(101 * Scale), Int64(20 * Scale))}

CapperBatches ==
    {Batch({"Age", "Num_Bank_Accounts"}, rs) : rs \in SeqsUpTo(CapperRows, MaxRows)}
    \cup {Batch({"Age"}, rs) : rs \in SeqsUpTo({Row1("Age", a) : a \in AgeCells}, MaxRows)}
    \cup {Batch({"Num_Bank_Accounts"}, rs) :
             rs \in SeqsUpTo({Row1("Num_Bank_Accounts", b) : b \in BankCells}, MaxRows)}

EmptyBatch == Batch({}, <<>>)

CapperSpecInit ==
    /\ capper = OutlierCapperInit
    /\ imputer = MissingValueImputerInit
    /\ X = EmptyBatch
    /\ Xfit = EmptyBatch
    /\ Y = EmptyBatch
    /\ op = "init"
    /\ ServiceAbsent

CapperFit ==
    \E B \in {b \in CapperBatches : NRows(b) > 0} :
        /\ capper' = OutlierCapperFit(capper, B)
        /\ X' = B
        /\ Y' = EmptyBatch
        /\ op' = "fit"
        /\ UNCHANGED <<imputer, Xfit, pipeline, phase, response, loaded>>

CapperTransform ==
    \E B \in CapperBatches :
        /\ Y' = OutlierCapperTransform(capper, B)
        /\ X' = B
        /\ op' = "transform"
        /\ UNCHANGED <<capper, imputer, Xfit, pipeline, phase, response, loaded>>

CapperNext == CapperFit \/ CapperTransform

SpecCapper == CapperSpecInit /\ [][CapperNext]_vars

-----------------------------------------------------------------------------
(* Claims about OutlierCapper *)

\* m is the median of the numbers vs: at most half of them lie below it and
\* at most half above, and it is one of them or the mean of two neighbours
IsMedianOf(m, vs) ==
    LET n == Len(vs)
        below == Cardinality({i \in 1..n : vs[i] < m})
        above == Cardinality({i \in 1..n : vs[i] > m})
    IN  /\ 2 * below <= n
        /\ 2 * above <= n
        /\ \/ \E i \in 1..n : vs[i] = m
           \/ \E i, j \in 1..n :
                 /\ vs[i] + vs[j] = 2 * m
                 /\ \A h \in 1..n : ~(vs[i] < vs[h] /\ vs[h] < vs[j])

\* C3: transform replaces an Age below 18 or above 100 by the learned
\* median_age, keeps every Age in [18, 100] as it was, and leaves a missing
\* Age missing.
C3_AgeCapping ==
    (op = "transform" /\ HasColumn(X, "Age")) =>
        \A i \in 1..NRows(X) :
            LET a == X.rows[i]["Age"]
                r == Y.rows[i]["Age"]
            IN  /\ (IsNumber(a) /\ (a.v < 18 * Scale \/ a.v > 100 * Scale))
                       => r = capper.median_age
                /\ (IsNumber(a) /\ a.v >= 18 * Scale /\ a.v <= 100 * Scale) => r = a
                /\ IsNa(a) => IsNa(r)

\* C3 witness: after a fit that learned a median other than the default, one
\* transform replaced a 17 and kept a 100
C3_Witness ==
    /\ op = "transform" /\ HasColumn(X, "Age") /\ NRows(X) = 2
    /\ capper.median_age = Num(59 * Scale)
    /\ X.rows[1]["Age"] = Num(17 * Scale) /\ Y.rows[1]["Age"] = Num(59 * Scale)
    /\ X.rows[2]["Age"] = Num(100 * Scale) /\ Y.rows[2]["Age"] = Num(100 * Scale)

\* C4: after transform a count above 20 is exactly 20, a negative count is
\* exactly 0 and a count in [0, 20] is unchanged, with or without an Age column.
C4_AccountCapping ==
    (op = "transform" /\ HasColumn(X, "Num_Bank_Accounts")) =>
        \A i \in 1..NRows(X) :
            LET b == X.rows[i]["Num_Bank_Accounts"]
                r == Y.rows[i]["Num_Bank_Accounts"]
            IN  /\ (IsNumber(b) /\ b.v > 20 * Scale) => (IsNumber(r) /\ r.v = 20 * Scale)
                /\ (IsNumber(b) /\ b.v < 0) => (IsNumber(r) /\ r.v = 0)
                /\ (IsNumber(b) /\ b.v >= 0 /\ b.v <= 20 * Scale) => r = b

\* C4 witness: a batch without an Age column whose counts 21 and -1 came out
\* as 20 and 0
C4_Witness ==
    /\ op = "transform" /\ X.columns = {"Num_Bank_Accounts"} /\ NRows(X) = 2
    /\ X.rows[1]["Num_Bank_Accounts"].v = 21 * Scale
    /\ Y.rows[1]["Num_Bank_Accounts"].v = 20 * Scale
    /\ X.rows[2]["Num_Bank_Accounts"].v = -1 * Scale
    /\ Y.rows[2]["Num_Bank_Accounts"].v = 0

\* the Age values of B that lie in [18, 100]
ValidAges(B) ==
    IF HasColumn(B, "Age") THEN Values(SelectSeq(Column(B, "Age"), InAgeRange)) ELSE <<>>

\* C10: after every fit, whatever fits came before, median_age is the median
\* of the in-range Age values of the batch just fitted, and the default 30
\* when that batch has none; so median_age lies in [18, 100].
C10_MedianOfLastFit ==
    op = "fit" =>
        /\ IsNumber(capper.median_age)
        /\ IF ValidAges(X) = <<>>
           THEN capper.median_age.v = 30 * Scale
           ELSE IsMedianOf(capper.median_age.v, ValidAges(X))
        /\ capper.median_age.v >= 18 * Scale /\ capper.median_age.v <= 100 * Scale

-----------------------------------------------------------------------------
(* MissingValueImputer alone: fit and transform calls in any order *)

MaxTransformRows == 1

RowMO(m, o) == [c \in {"Monthly_Balance", "Occupation"} |-> IF c = "Monthly_Balance" THEN m ELSE o]

BalanceCells == {NaN, Num(100 * Scale), Num(300 * Scale)}

\* what fit is called with: one to MaxRows rows of two occupations, and one
\* batch without the Occupation column
ImputerFitBatches ==
    {Batch({"Monthly_Balance", "Occupation"}, rs) :
        rs \in SeqsUpTo({RowMO(m, o) : m \in BalanceCells, o \in {"Engineer", "Doctor"}},
                        MaxRows) \ {<<>>}}
    \cup {Batch({"Monthly_Balance"}, <<Row1("Monthly_Balance", Num(100 * Scale))>>)}

\* what transform is called with: at least one row (DataFrame.apply on an
\* empty frame is not modelled); "Lawyer" is never seen by fit
ImputerTransformBatches ==
    {Batch({"Monthly_Balance", "Occupation"}, rs) :
        rs \in SeqsUpTo({RowMO(m, o) : m \in BalanceCells,
                                        o \in {"Engineer", "Doctor", "Lawyer"}},
                        MaxTransformRows) \ {<<>>}}
    \cup {Batch({"Monthly_Balance"}, <<Row1("Monthly_Balance", NaN)>>)}

ImputerSpecInit ==
    /\ capper = OutlierCapperInit
    /\ imputer = MissingValueImputerInit
    /\ X = EmptyBatch
    /\ Xfit = EmptyBatch
    /\ Y = EmptyBatch
    /\ op = "init"
    /\ ServiceAbsent

ImputerFit ==
    \E B \in ImputerFitBatches :
        /\ imputer' = MissingValueImputerFit(imputer, B)
        /\ X' = B
        /\ Xfit' = B
        /\ Y' = EmptyBatch
        /\ op' = "fit"
        /\ UNCHANGED <<capper, pipeline, phase, response, loaded>>

ImputerTransform ==
    \E B \in ImputerTransformBatches :
        /\ Y' = MissingValueImputerTransform(imputer, B)
        /\ X' = B
        /\ op' = "transform"
        /\ UNCHANGED <<capper, imputer, Xfit, pipeline, phase, response, loaded>>

ImputerNext == ImputerFit \/ ImputerTransform

SpecImputer == ImputerSpecInit /\ [][ImputerNext]_vars

HasBoth(B) == HasColumn(B, "Monthly_Balance") /\ HasColumn(B, "Occupation")

\* r is what the two-level fallback gives occupation o after a fit on F: the
\* median of o's numbers in F, else the median of all the numbers of F, else NaN
IsFallbackFill(r, o, F) ==
    LET group == Values(GroupCells(F, o))
        all   == Values(Column(F, "Monthly_Balance"))
    IN  IF group # <<>> THEN IsNumber(r) /\ IsMedianOf(r.v, group)
        ELSE IF all # <<>> THEN IsNumber(r) /\ IsMedianOf(r.v, all)
        ELSE IsNa(r)

\* C5 as stated: for any fit batch and transform batch that both have the two
\* columns, a present Monthly_Balance is unchanged and a missing one is filled
\* with the group median, or with the global median for an unseen or empty
\* group, and the filled value is never missing.
C5_NeverMissing ==
    (op = "transform" /\ HasBoth(X) /\ HasBoth(Xfit)) =>
        \A i \in 1..NRows(X) :
            LET m == X.rows[i]["Monthly_Balance"]
                r == Y.rows[i]["Monthly_Balance"]
            IN  /\ ~IsNa(m) => r = m
                /\ IsNa(m) => (IsFallbackFill(r, X.rows[i]["Occupation"], Xfit) /\ ~IsNa(r))

\* C5 amended: the same, the filled value being non-missing whenever the fit
\* batch held at least one non-missing Monthly_Balance (with none, the global
\* median is itself missing and so is the filled value).
C5_FilledWhenFitHadData ==
    (op = "transform" /\ HasBoth(X) /\ HasBoth(Xfit)) =>
        \A i \in 1..NRows(X) :
            LET m == X.rows[i]["Monthly_Balance"]
                r == Y.rows[i]["Monthly_Balance"]
            IN  /\ ~IsNa(m) => r = m
                /\ IsNa(m) => IsFallbackFill(r, X.rows[i]["Occupation"], Xfit)
                /\ (IsNa(m) /\ Values(Column(Xfit, "Monthly_Balance")) # <<>>) => ~IsNa(r)

\* C5 witness: Engineer had no number at fit time, Doctor had 300; a missing
\* balance of an Engineer was filled with the global median 300
C5_Witness ==
    /\ op = "transform" /\ HasBoth(X) /\ HasBoth(Xfit)
    /\ Xfit.rows = <<RowMO(NaN, "Engineer"), RowMO(Num(300 * Scale), "Doctor")>>
    /\ X.rows[1] = RowMO(NaN, "Engineer")
    /\ Y.rows[1]["Monthly_Balance"] = Num(300 * Scale)

-----------------------------------------------------------------------------
(* FeatureEngineer alone: one transform of one batch *)

RowOf(cols, income, debt, cards, salary) ==
    [c \in cols |->
        CASE c = "Annual_Income"    -> income
          [] c = "Outstanding_Debt" -> debt
          [] c = "Num_Credit_Card"  -> cards
          [] OTHER                  -> salary]

IncomeCells == {NaN, Str(<<"_">>), Num(-1 * Scale), Num(0), Num(1000 * Scale)}
DebtCells   == {NaN, Num(0), Num(500 * Scale)}
CardCells   == {NaN, Int64(-1 * Scale), Int64(0), Int64(3 * Scale)}
SalaryCells == {NaN, Num(0), Num(100 * Scale)}

\* batches of one to MaxTransformRows rows that have all four inputs or lack one
FeatureBatches ==
    UNION {{Batch(cols, rs) :
               rs \in SeqsUpTo({RowOf(cols, i, d, c, s) :
                                   i \in IncomeCells, d \in DebtCells,
                                   c \in CardCells, s \in SalaryCells},
                               MaxTransformRows) \ {<<>>}} :
           cols \in {numeric_cols} \cup {numeric_cols \ {c} : c \in numeric_cols}}

\* the fields no transformer call has touched yet, and a service that is not part
\* of the specification
Untouched ==
    /\ capper = OutlierCapperInit
    /\ imputer = MissingValueImputerInit
    /\ Xfit = EmptyBatch
    /\ Y = EmptyBatch
    /\ op = "new"
    /\ ServiceAbsent

FeaturesSpecInit == X \in FeatureBatches /\ Untouched

FeaturesTransform ==
    /\ op = "new"
    /\ Y' = FeatureEngineerTransform(X)
    /\ op' = "features"
    /\ UNCHANGED <<capper, imputer, X, Xfit, pipeline, phase, response, loaded>>

SpecFeatures == FeaturesSpecInit /\ [][FeaturesTransform]_vars

\* a cell that, read as the transformer reads it, is not a negative number
\* (missing and unparsable cells count as 0)
NonNegative(c) == ~(IsNumber(c) /\ c.v < 0) /\ ~(c.k = "str" /\ "-" \in {c.s[j] : j \in 1..Len(c.s)})

IsFinite(r) == r.k = "quot" /\ r.d # 0

\* C8: for every row whose Annual_Income and Num_Credit_Card are non-negative,
\* the denominators are non-zero and every ratio the batch gets is a finite number.
C8_RatiosFinite ==
    op = "features" =>
        \A i \in 1..NRows(X) :
            LET r == X.rows[i]
                y == Y.rows[i]
                incomeOk == HasColumn(X, "Annual_Income") /\ NonNegative(r["Annual_Income"])
                cardsOk  == HasColumn(X, "Num_Credit_Card") /\ NonNegative(r["Num_Credit_Card"])
            IN  /\ (incomeOk /\ HasColumn(X, "Outstanding_Debt")) =>
                       (HasColumn(Y, "DTI_Ratio") /\ IsFinite(y["DTI_Ratio"])
                          /\ y["DTI_Ratio"].d >= Scale)
                /\ (cardsOk /\ HasColumn(X, "Outstanding_Debt")) =>
                       (HasColumn(Y, "Utilization_Proxy") /\ IsFinite(y["Utilization_Proxy"])
                          /\ y["Utilization_Proxy"].d >= Scale)
                /\ (incomeOk /\ HasColumn(X, "Monthly_Inhand_Salary")) =>
                       (HasColumn(Y, "Income_Stability") /\ IsFinite(y["Income_Stability"])
                          /\ y["Income_Stability"].d >= Scale)

\* C8 witness: a row with income 0, no card and a debt of 500 got the three
\* ratios, each over the denominator 1.0
C8_Witness ==
    /\ op = "features" /\ X.columns = numeric_cols
    /\ X.rows[1] = RowOf(numeric_cols, Num(0), Num(500 * Scale), Int64(0), Num(100 * Scale))
    /\ Y.rows[1]["DTI_Ratio"] = Quot(500 * Scale, Scale)
    /\ Y.rows[1]["Utilization_Proxy"] = Quot(500 * Scale, Scale)
    /\ Y.rows[1]["Income_Stability"] = Quot(1200 * Scale, Scale)

-----------------------------------------------------------------------------
(* RegexCleaner alone: one transform of one batch *)

MaxLen == 4

TextChars == {"0", "1", ".", "-", "_"}

\* the cells of a dirty column: every text of up to MaxLen characters, and what a
\* typed column holds (a float, a float below 0.0001, an int, NaN)
DirtyCells ==
    {Str(s) : s \in SeqsUpTo(TextChars, MaxLen)}
    \cup {NaN, Num(34 * Scale), Num(1), Int64(-4 * Scale)}

RowAO(a, o) == [c \in {"Age", "Occupation"} |-> IF c = "Age" THEN a ELSE o]

CleanerBatches ==
    {Batch({"Age", "Occupation"}, <<RowAO(a, "Engineer")>>) : a \in DirtyCells}
    \cup {Batch({"Occupation"}, <<Row1("Occupation", "Engineer")>>)}

CleanerSpecInit == X \in CleanerBatches /\ Untouched

CleanerTransform ==
    /\ op = "new"
    /\ Y' = RegexCleanerTransform(DIRTY_NUMERIC_COLS, X)
    /\ op' = "regex"
    /\ UNCHANGED <<capper, imputer, X, Xfit, pipeline, phase, response, loaded>>

SpecCleaner == CleanerSpecInit /\ [][CleanerTransform]_vars

\* the digits, dots and minus signs of a text, in order
NumericChars(s) ==
    LET IsNumeric(ch) == ch \in {"0", "1", "2", "3", "4", "5", "6", "7", "8", "9", ".", "-"}
    IN  SelectSeq(s, IsNumeric)

Count(s, ch) == Cardinality({j \in 1..Len(s) : s[j] = ch})

\* at least one digit, at most one dot, at most one minus and that one in front
WritesANumber(r) ==
    /\ \E j \in 1..Len(r) : r[j] \notin {".", "-"}
    /\ Count(r, ".") <= 1
    /\ Count(r, "-") <= 1
    /\ Count(r, "-") = 1 => r[1] = "-"

\* the number r writes, in units of 1 / Scale: every digit times the power of
\* ten of its place
NumberWritten(r) ==
    LET IsDigit(ch) == ch \notin {".", "-"}
        ds    == SelectSeq(r, IsDigit)
        dotAt == IF Count(r, ".") = 0 THEN Len(r) + 1 ELSE CHOOSE j \in 1..Len(r) : r[j] = "."
        ndec  == Len(r) + 1 - dotAt - (IF dotAt <= Len(r) THEN 1 ELSE 0)
        RECURSIVE Places(_)
        Places(i) ==
            IF i > Len(ds) THEN 0
            ELSE DigitValue(ds[i]) * (10 ^ ((Len(ds) - i) + (5 - ndec))) + Places(i + 1)
    IN  (IF r[1] = "-" THEN -1 ELSE 1) * Places(1)

\* C6: a text cell of a configured column whose digits, dot and minus write a
\* number (at most one dot, at most one minus and that one leading) becomes
\* exactly that number, whatever other characters it holds; a cell whose
\* remainder is empty or writes no number becomes missing.
C6_CleanRecoversNumber ==
    (op = "regex" /\ HasColumn(X, "Age")) =>
        \A i \in 1..NRows(X) :
            LET c == X.rows[i]["Age"]
                r == Y.rows[i]["Age"]
            IN  c.k = "str" =>
                    IF WritesANumber(NumericChars(c.s))
                    THEN IsNumber(r) /\ r.v = NumberWritten(NumericChars(c.s))
                    ELSE IsNa(r)

\* C6 witness: the text "-_.1" became -0.1
C6_Witness ==
    /\ op = "regex"
    /\ HasColumn(X, "Age")
    /\ X.rows[1]["Age"] = Str(<<"-", "_", ".", "1">>)
    /\ Y.rows[1]["Age"] = Num(-10000)

-----------------------------------------------------------------------------
(* The fitted chain: one fit, one transform, and the transform run again on
   its own output *)

ChainCols ==
    {"Age", "Num_Bank_Accounts", "Monthly_Balance", "Occupation",
     "Annual_Income", "Outstanding_Debt", "Num_Credit_Card", "Monthly_Inhand_Salary"}

\* a row of the eight columns; income, cards and salary are the same in every row
ChainRow(age, bank, balance, occupation, debt) ==
    [c \in ChainCols |->
        CASE c = "Age"               -> age
          [] c = "Num_Bank_Accounts" -> bank
          [] c = "Monthly_Balance"   -> balance
          [] c = "Occupation"        -> occupation
          [] c = "Outstanding_Debt"  -> debt
          [] c = "Annual_Income"     -> Num(1000 * Scale)
          [] c = "Num_Credit_Card"   -> Int64(3 * Scale)
          [] OTHER                   -> Num(100 * Scale)]

\* rows of the training file: every dirty column is text
TrainRows ==
    {ChainRow(Str(<<"4", "0", "_">>), Str(<<"4">>), Str(<<"3", "0", "0">>), "Engineer",
              Str(<<"8", "0", "0">>)),
     ChainRow(Str(<<"1", "0", "0">>), Str(<<"2", "1">>), Str(<<"_">>), "Doctor",
              Str(<<"8", "0", "0">>)),
     ChainRow(Str(<<"-", "5">>), Str(<<"4">>), Str(<<"1", "0", "0">>), "Doctor",
              Str(<<"0">>)),
     ChainRow(Str(<<"1", "8">>), Str(<<"-", "1">>), Str(<<"_", "_">>), "Engineer",
              Str(<<"8", "0", "0">>))}

TrainBatches == {Batch(ChainCols, rs) : rs \in SeqsUpTo(TrainRows, MaxRows) \ {<<>>}}

\* rows handed to transform: typed cells as the service builds them, and texts
TransformRows ==
    {ChainRow(a, b, m, o, d) :
        a \in {Num(34 * Scale), Str(<<"1", "7", "_">>)},
        b \in {Int64(4 * Scale), Str(<<"2", "1">>)},
        m \in {Num(350 * Scale), NaN, Str(<<"0", ".", "0", "0", "0", "0", "5">>)},
        o \in {"Engineer", "Lawyer"},
        d \in {Num(800 * Scale), Str(<<"0", ".", "0", "0", "0", "0", "5">>)}}

TransformBatches ==
    {Batch(ChainCols, rs) : rs \in SeqsUpTo(TransformRows, MaxTransformRows) \ {<<>>}}

ChainSpecInit == X = EmptyBatch /\ Untouched

\* model_pipeline.fit(X_train, y_train), the cleaning steps of it
ChainFitStep ==
    \E B \in TrainBatches :
        /\ op = "new"
        /\ capper' = ChainFit(B).capper
        /\ imputer' = ChainFit(B).imputer
        /\ X' = B
        /\ Xfit' = B
        /\ op' = "fit"
        /\ UNCHANGED <<Y, pipeline, phase, response, loaded>>

\* the fitted steps' transform on a new batch
ChainTransformStep ==
    \E B \in TransformBatches :
        /\ op = "fit"
        /\ X' = B
        /\ Y' = ChainTransform([capper |-> capper, imputer |-> imputer], B)
        /\ op' = "transform"
        /\ UNCHANGED <<capper, imputer, Xfit, pipeline, phase, response, loaded>>

\* the same transform on the batch it has just produced
ChainRetransformStep ==
    /\ op = "transform"
    /\ X' = Y
    /\ Y' = ChainTransform([capper |-> capper, imputer |-> imputer], Y)
    /\ op' = "retransform"
    /\ UNCHANGED <<capper, imputer, Xfit, pipeline, phase, response, loaded>>

ChainNext == ChainFitStep \/ ChainTransformStep \/ ChainRetransformStep

SpecChain == ChainSpecInit /\ [][ChainNext]_vars

\* a cell of column c that is numeric and, where the column has a range, in it
AlreadyClean(c, cell) ==
    /\ c # "Occupation"
    /\ cell.k \in {"num", "int", "nan", "quot"}
    /\ (c = "Age" /\ IsNumber(cell)) => (cell.v >= 18 * Scale /\ cell.v <= 100 * Scale)
    /\ (c = "Num_Bank_Accounts" /\ IsNumber(cell)) => (cell.v >= 0 /\ cell.v <= 20 * Scale)

SameValue(a, b) ==
    \/ IsNa(a) /\ IsNa(b)
    \/ IsNumber(a) /\ IsNumber(b) /\ a.v = b.v
    \/ a.k = "quot" /\ a = b

\* C7: the cleaning steps run again on a batch they produced change no value
\* of a column that was already numeric and in range.
C7_Idempotent ==
    op = "retransform" =>
        \A i \in 1..NRows(X) : \A c \in X.columns :
            AlreadyClean(c, X.rows[i][c]) => SameValue(Y.rows[i][c], X.rows[i][c])

-----------------------------------------------------------------------------
(* The service: lifespan and the two handlers *)

Classifiers ==
    {Stump(50 * Scale, Leaf(0), Leaf(2)),
     Stump(30 * Scale, Raises("feature shape mismatch"), Leaf(1)),
     Stump(40 * Scale, Leaf(2), Raises("invalid input"))}

\* what model.joblib can hold: the pipeline train() fitted on some training
\* batch
FittedPipelines ==
    {FittedPipeline(ChainFit(B), clf) : B \in TrainBatches, clf \in Classifiers}

\* CreditApplication objects as model_dump gives them: typed fields
Requests ==
    {ChainRow(Num(a * Scale), Int64(b * Scale), Num(350 * Scale), o, Num(800 * Scale)) :
        a \in {17, 34, 101}, b \in {4, 21}, o \in {"Engineer", "Lawyer"}}

ServiceInit ==
    /\ pipeline = None
    /\ phase = "created"
    /\ response = NoResponse
    /\ loaded = None
    /\ capper = OutlierCapperInit
    /\ imputer = MissingValueImputerInit
    /\ X = EmptyBatch /\ Xfit = EmptyBatch /\ Y = EmptyBatch /\ op = "new"

\* a prediction has failed since the chain was loaded
FailedSoFar ==
    loaded # None /\ (response.after_failure \/ (response.kind = "predict" /\ response.status = 500))

\* lifespan, startup: joblib.load succeeds
StartupLoaded ==
    \E p \in FittedPipelines :
        /\ phase = "created"
        /\ pipeline' = p
        /\ loaded' = p
        /\ phase' = "serving"
        /\ UNCHANGED <<capper, imputer, X, Xfit, Y, op, response>>

\* lifespan, startup: joblib.load raises, the exception is printed and dropped
StartupLoadFailed ==
    /\ phase = "created"
    /\ phase' = "serving"
    /\ UNCHANGED <<capper, imputer, X, Xfit, Y, op, pipeline, response, loaded>>

\* lifespan, shutdown
Shutdown ==
    /\ phase = "serving"
    /\ pipeline' = None
    /\ loaded' = None
    /\ phase' = "stopped"
    /\ UNCHANGED <<capper, imputer, X, Xfit, Y, op, response>>

\* POST /predict
Predict ==
    \E request \in Requests :
        /\ response' = [PredictHandler(pipeline, request) EXCEPT
                            !.request = request, !.chain_loaded = (loaded # None),
                            !.after_failure = FailedSoFar]
        /\ pipeline' = IF Truthy(pipeline)
                        THEN PipelineAfterPredict(pipeline, Batch(DOMAIN request, <<request>>))
                        ELSE pipeline
        /\ UNCHANGED <<capper, imputer, X, Xfit, Y, op, phase, loaded>>

\* GET /health
Health ==
    /\ response' = [HealthHandler(pipeline) EXCEPT !.chain_loaded = (loaded # None),
                                                    !.after_failure = FailedSoFar]
    /\ UNCHANGED <<capper, imputer, X, Xfit, Y, op, pipeline, phase, loaded>>

Next == StartupLoaded \/ StartupLoadFailed \/ Shutdown \/ Predict \/ Health

Spec == ServiceInit /\ [][Next]_vars

\* C1: while no fitted chain is loaded (before startup, after a failed load,
\* after shutdown) a predict request ends in 503 'Model not loaded', never in
\* the generic 500; and health reports model_loaded false exactly then.
C1_UnavailableWhenNotLoaded ==
    /\ (response.kind = "predict" /\ ~response.chain_loaded) =>
           (response.status = 503 /\ response.detail = "Model not loaded")
    /\ response.kind = "health" => (response.model_loaded = response.chain_loaded)

\* C1 witness: a predict request after shutdown was answered 503
C1_Witness ==
    /\ phase = "stopped"
    /\ response.kind = "predict" /\ ~response.chain_loaded
    /\ response.status = 503

\* what the caller sees of a response
Visible(r) ==
    [status |-> r.status, detail |-> r.detail, credit_score |-> r.credit_score,
     risk_level |-> r.risk_level]

C9_LabelAndRisk ==
    (response.kind = "predict" /\ response.status = 200) =>
        /\ response.credit_score \in {"Good", "Standard", "Poor"}
        /\ target_map[response.credit_score] = response.idx
        /\ response.credit_score = "Poor" => response.risk_level = "High"
        /\ response.credit_score = "Good" => response.risk_level = "Low"
        /\ response.credit_score = "Standard" => response.risk_level = "Medium"

\* C9 witness: a response with credit_score Poor and risk_level High
C9_Witness ==
    /\ response.kind = "predict" /\ response.status = 200
    /\ response.credit_score = "Poor" /\ response.risk_level = "High" /\ response.idx = 2

=============================================================================
